---- MODULE Spec2Model ----
(***************************************************************************)
(* German flashcards PWA: the IndexedDB store of decks and cards (db.js),  *)
(* the spaced-repetition transition applySRS, the session queue builder    *)
(* buildStudyQueue and the study session driven by the click handlers of   *)
(* app.js.                                                                 *)
(*                                                                         *)
(* Time is counted in ticks of a quarter of a day (Date.now() is read in   *)
(* whole ticks).  Ease is counted in hundredths (2.3 is 230).  Interval    *)
(* and due time are exact fractions <<numerator, denominator>>.  Text is a *)
(* sequence of one-character strings, so that trim() is computed.          *)
(*                                                                         *)
(* Every database call of a handler is a transaction that is queued in     *)
(* txq in the order of its creation; the transactions run one after the    *)
(* other and the code after the handler's await runs when its transaction  *)
(* has completed.                                                          *)
(***************************************************************************)
EXTENDS Integers, Sequences, FiniteSets, TLC

VARIABLES
    decks,          \* object store "decks": id -> deck record
    cards,          \* object store "cards": id -> card record
    now,            \* Date.now(), in ticks
    uidCount,       \* number of ids uid() has handed out
    selectedDeckId, \* app.js selectedDeckId (0 is null)
    study,          \* app.js study
    genderResult,   \* text of #genderResult
    txq,            \* transactions created and not yet completed, oldest first
    tx,             \* the running multi-request transaction (deleteDeck, wipeAll)
    result,         \* how the last database call settled: resolved, or rejected with error
    snapshot,       \* what the last exportAll returned
    exp,            \* the exportAll call in progress
    gradeCount      \* number of grades gradeCurrent has applied

vars == <<decks, cards, now, uidCount, selectedDeckId, study, genderResult,
          txq, tx, result, snapshot, exp, gradeCount>>

(***************************************************************************)
(* Bounds of the model.                                                    *)
(***************************************************************************)
MaxUid == 4        \* ids uid() may hand out
MaxTime == 1       \* ticks the clock may advance
MaxInflight == 2   \* transactions that may be queued at once
MaxGrades == 2     \* grades the sessions may apply
MaxCards == 1      \* cards of the deck that is studied
MaxReps == 3       \* good/easy grades in a row a card may get
MaxLapses == 6     \* again grades a card may get
MaxDeck == 3       \* cards handed to the queue builder
MaxGoal == 4       \* goal handed to the queue builder
MaxStart == 5      \* cards of the deck a session is started on
MaxSession == 2    \* cards of the deck whose sessions are graded through

(***************************************************************************)
(* Program constants.                                                      *)
(***************************************************************************)
DayTicks == 4          \* 24*60*60*1000 ms, in ticks
EaseStart == 230       \* 2.3
EaseMin == 130         \* 1.3
EaseMax == 300         \* 3.0
EaseAgain == 20        \* 0.20
EaseGood == 5          \* 0.05
EaseEasy == 15         \* 0.15
GoalMin == 5
GoalMax == 200
GoalDefault == 20

Min(a, b) == IF a <= b THEN a ELSE b
Max(a, b) == IF a >= b THEN a ELSE b

(***************************************************************************)
(* Exact fractions.                                                        *)
(***************************************************************************)
RECURSIVE GCD(_, _)
GCD(a, b) == IF b = 0 THEN a ELSE GCD(b, a % b)

Frac(n, d) == LET g == GCD(n, d) IN IF g = 0 THEN <<0, 1>> ELSE <<n \div g, d \div g>>
FracMul(x, y) == Frac(x[1] * y[1], x[2] * y[2])
FracAdd(x, y) == Frac(x[1] * y[2] + y[1] * x[2], x[2] * y[2])
FracLeq(x, y) == x[1] * y[2] <= y[1] * x[2]
FracMax(x, y) == IF FracLeq(y, x) THEN x ELSE y
FracInt(n) == <<n, 1>>

(***************************************************************************)
(* Text.                                                                   *)
(***************************************************************************)
RECURSIVE TrimLeft(_)
TrimLeft(s) == IF s # << >> /\ Head(s) = " " THEN TrimLeft(Tail(s)) ELSE s

RECURSIVE TrimRight(_)
TrimRight(s) ==
    IF s # << >> /\ s[Len(s)] = " " THEN TrimRight(SubSeq(s, 1, Len(s) - 1)) ELSE s

\* String.prototype.trim
trim(s) == TrimRight(TrimLeft(s))

\* String.prototype.toLowerCase, on the letters of the articles
lowerChar(c) ==
    CASE c = "D" -> "d" [] c = "E" -> "e" [] c = "R" -> "r" [] c = "I" -> "i"
      [] c = "A" -> "a" [] c = "S" -> "s" [] OTHER -> c
toLowerCase(s) == [i \in 1..Len(s) |-> lowerChar(s[i])]

DER == <<"d", "e", "r">>
DIE == <<"d", "i", "e">>
DAS == <<"d", "a", "s">>
NoText == << >>

(***************************************************************************)
(* Records.                                                                *)
(***************************************************************************)
NoSRS == [due |-> FracInt(0), intervalDays |-> FracInt(0), ease |-> 0, reps |-> 0,
          lapses |-> 0]
NoCard == [id |-> 0, deckId |-> 0, english |-> NoText, german |-> NoText,
           article |-> NoText, plural |-> NoText, example |-> NoText,
           notes |-> NoText, createdAt |-> 0, srs |-> NoSRS]
NoDeck == [id |-> 0, name |-> NoText, createdAt |-> 0]
NoFields == [english |-> NoText, german |-> NoText, article |-> NoText,
             plural |-> NoText, example |-> NoText, notes |-> NoText]
Empty == << >>

\* the card of ensureStarterDeck ("the house", "Haus", "das", ...)
StarterFields == [english |-> <<"h">>, german |-> <<"H">>, article |-> DAS,
                  plural |-> <<"P">>, example |-> <<"X">>, notes |-> <<"N">>]
StarterName == <<"S">>

\* what the forms may hold
NameInputs == {<<" ", "A", " ">>}
FieldInputs == {[english |-> <<" ", "c">>, german |-> <<"K", " ">>, article |-> NoText,
                 plural |-> NoText, example |-> NoText, notes |-> NoText]}
GoalInputs == {1, GoalDefault}
Grades == {"again", "good", "easy"}
Modes == {"flash", "gender"}
Choices == {DER, DIE, DAS}

(***************************************************************************)
(* SRS (app.js).                                                           *)
(***************************************************************************)
\* clamp that bounds from above only
clampAbove(n, lo, hi) == Min(hi, n)

clamp(n, lo, hi) == Max(lo, Min(hi, n))

defaultSRS(t) ==
    [due |-> FracInt(t), intervalDays |-> FracInt(0), ease |-> EaseStart, reps |-> 0,
     lapses |-> 0]

\* s.due = now
dueAtGrading(t, interval) == FracInt(t)

\* s.due = now + s.intervalDays * 24*60*60*1000
dueAfter(t, interval) == FracAdd(FracInt(t), FracMul(interval, FracInt(DayTicks)))

\* the again branch without  s.reps = 0
srsAgainKeepReps(s, t) ==
    LET iv == Frac(1, 4)
    IN  [s EXCEPT !.lapses = s.lapses + 1,
                  !.ease = clamp(s.ease - EaseAgain, EaseMin, EaseMax),
                  !.intervalDays = iv, !.due = dueAfter(t, iv)]

srsAgain(s, t) ==
    LET iv == Frac(1, 4)
    IN  [s EXCEPT !.lapses = s.lapses + 1, !.reps = 0,
                  !.ease = clamp(s.ease - EaseAgain, EaseMin, EaseMax),
                  !.intervalDays = iv, !.due = dueAfter(t, iv)]

\* the good branch with a first interval of two days
srsGoodFirstTwo(s, t) ==
    LET e == clamp(s.ease + EaseGood, EaseMin, EaseMax)
        iv == IF s.reps = 0 THEN FracInt(2)
              ELSE FracMax(FracInt(1), FracMul(s.intervalDays, Frac(e, 100)))
    IN  [s EXCEPT !.ease = e, !.intervalDays = iv, !.reps = s.reps + 1,
                  !.due = dueAfter(t, iv)]

srsGood(s, t) ==
    LET e == clamp(s.ease + EaseGood, EaseMin, EaseMax)
        iv == IF s.reps = 0 THEN FracInt(1)
              ELSE FracMax(FracInt(1), FracMul(s.intervalDays, Frac(e, 100)))
    IN  [s EXCEPT !.ease = e, !.intervalDays = iv, !.reps = s.reps + 1,
                  !.due = dueAfter(t, iv)]

\* the easy branch without  s.reps += 1
srsEasyKeepReps(s, t) ==
    LET e == clamp(s.ease + EaseEasy, EaseMin, EaseMax)
        iv == IF s.reps = 0 THEN FracInt(2)
              ELSE FracMax(FracInt(2),
                           FracMul(FracMul(s.intervalDays, Frac(e, 100)), Frac(13, 10)))
    IN  [s EXCEPT !.ease = e, !.intervalDays = iv, !.due = dueAfter(t, iv)]

srsEasy(s, t) ==
    LET e == clamp(s.ease + EaseEasy, EaseMin, EaseMax)
        iv == IF s.reps = 0 THEN FracInt(2)
              ELSE FracMax(FracInt(2),
                           FracMul(FracMul(s.intervalDays, Frac(e, 100)), Frac(13, 10)))
    IN  [s EXCEPT !.ease = e, !.intervalDays = iv, !.reps = s.reps + 1,
                  !.due = dueAfter(t, iv)]

\* applySRS(card, grade) at Date.now() = t: the card with its srs rewritten
applySRS(card, grade, t) ==
    CASE grade = "again" -> [card EXCEPT !.srs = srsAgain(card.srs, t)]
      [] grade = "good" -> [card EXCEPT !.srs = srsGood(card.srs, t)]
      [] grade = "easy" -> [card EXCEPT !.srs = srsEasy(card.srs, t)]
      [] OTHER -> card

(***************************************************************************)
(* Queue builder (app.js).                                                 *)
(***************************************************************************)
IsDue(c, t) == FracLeq(c.srs.due, FracInt(t))

Swap(q, i, j) == [q EXCEPT ![i] = q[j], ![j] = q[i]]

\* every result of the loop  for (i = q.length-1; i > 0; i--) swap(q[i], q[random j <= i])
RECURSIVE Shuffles(_, _)
Shuffles(q, i) ==
    IF i <= 1 THEN {q}
    ELSE UNION {Shuffles(Swap(q, i, j), i - 1) : j \in 1..i}

slice(q, n) == SubSeq(q, 1, Min(n, Len(q)))

HasId(q, id) == \E k \in 1..Len(q) : q[k].id = id

\* the list q without the filter on ids already present
CandidatesUnfiltered(cs, goal, t) ==
    LET due == SelectSeq(cs, LAMBDA c : IsDue(c, t))
        fresh == SelectSeq(cs, LAMBDA c : c.srs.reps = 0 /\ IsDue(c, t))
        notDue == SelectSeq(cs, LAMBDA c : ~IsDue(c, t))
    IN  IF Len(due) < goal THEN due \o fresh \o notDue ELSE due

\* the list q filled up with not-due cards whatever the number of due cards
CandidatesFilled(cs, goal, t) ==
    LET due == SelectSeq(cs, LAMBDA c : IsDue(c, t))
        notDue == SelectSeq(cs, LAMBDA c : ~IsDue(c, t))
    IN  due \o notDue

\* the list q of buildStudyQueue before the shuffle
Candidates(cs, goal, t) ==
    LET due == SelectSeq(cs, LAMBDA c : IsDue(c, t))
        fresh == SelectSeq(cs, LAMBDA c : c.srs.reps = 0 /\ IsDue(c, t))
        notDue == SelectSeq(cs, LAMBDA c : ~IsDue(c, t))
        add == SelectSeq(fresh \o notDue, LAMBDA c : ~HasId(due, c.id))
    IN  IF Len(due) < goal THEN due \o add ELSE due

\* every queue buildStudyQueue(cs, goal) may return at Date.now() = t
buildStudyQueue(cs, goal, t) ==
    LET q == Candidates(cs, goal, t)
    IN  {slice(s, goal) : s \in Shuffles(q, Len(q))}

(***************************************************************************)
(* Store (db.js): what each transaction does to the two object stores.     *)
(***************************************************************************)
Put(f, k, v) == (k :> v) @@ f
Remove(f, k) == [i \in DOMAIN f \ {k} |-> f[i]]

\* the deck record addDeck builds
newDeck(id, name, t) == [id |-> id, name |-> trim(name), createdAt |-> t]

\* the card record addCard builds
newCard(id, deckId, fields, t) ==
    [id |-> id, deckId |-> deckId,
     english |-> trim(fields.english), german |-> trim(fields.german),
     article |-> trim(fields.article), plural |-> trim(fields.plural),
     example |-> trim(fields.example), notes |-> trim(fields.notes),
     createdAt |-> t, srs |-> defaultSRS(t)]

\* the record built anew from the fields, as addCard builds it
editedCardReset(card, fields) == newCard(card.id, card.deckId, fields, card.createdAt)

\* the record updateCard writes back
editedCard(card, fields) ==
    [card EXCEPT !.english = trim(fields.english), !.german = trim(fields.german),
                 !.article = trim(fields.article), !.plural = trim(fields.plural),
                 !.example = trim(fields.example), !.notes = trim(fields.notes)]

CardsOfDeck(cs, deckId) == {i \in DOMAIN cs : cs[i].deckId = deckId}

\* a.createdAt - b.createdAt, ties in the order of the index (by id)
Before(a, b) == a.createdAt < b.createdAt \/ (a.createdAt = b.createdAt /\ a.id < b.id)

RECURSIVE SortCards(_, _)
SortCards(cs, ids) ==
    IF ids = {} THEN << >>
    ELSE LET m == CHOOSE i \in ids : \A j \in ids \ {i} : Before(cs[i], cs[j])
         IN  <<cs[m]>> \o SortCards(cs, ids \ {m})

\* getCardsByDeck
getCardsByDeck(cs, deckId) == SortCards(cs, CardsOfDeck(cs, deckId))

(***************************************************************************)
(* State after init(): the database is open and ensureStarterDeck has put  *)
(* the starter deck and its card into the empty store.                     *)
(***************************************************************************)
NoStudy == [active |-> FALSE, mode |-> "flash", deckId |-> 0, goal |-> GoalDefault,
            done |-> 0, queue |-> << >>, current |-> NoCard, flipped |-> FALSE,
            genderAnswered |-> FALSE, genderCorrect |-> FALSE]
NoTx == [pc |-> "idle", decks |-> Empty, cards |-> Empty]
NoExport == [pc |-> "idle", decks |-> Empty, seen |-> {}]
NoSnapshot == [decks |-> Empty, cards |-> Empty]
NoResult == [op |-> "", id |-> 0, error |-> ""]
BaseReq == [op |-> "", id |-> 0, name |-> NoText, fields |-> NoFields, card |-> NoCard,
            deck |-> NoDeck, goal |-> 0, input |-> 0, starter |-> FALSE]

Init ==
    /\ decks = (1 :> newDeck(1, StarterName, 0))
    /\ cards = (2 :> newCard(2, 1, StarterFields, 0))
    /\ now = 0
    /\ uidCount = 2
    /\ selectedDeckId = 1
    /\ study = NoStudy
    /\ genderResult = ""
    /\ txq = << >>
    /\ tx = NoTx
    /\ result = NoResult
    /\ snapshot = NoSnapshot
    /\ exp = NoExport
    /\ gradeCount = 0

\* uid(): an id never handed out before
uid == uidCount + 1

CanQueue == Len(txq) < MaxInflight

\* the promise of the oldest transaction's call settles
Settles(error) == result' = [op |-> txq[1].op, id |-> txq[1].id, error |-> error]
Enqueue(r) == txq' = Append(txq, r)

\* the store as an exportAll in progress has seen it
Observe(ds, cs) ==
    exp' = IF exp.pc \in {"decks", "cards"}
           THEN [exp EXCEPT !.seen = @ \cup {<<ds, cs>>}]
           ELSE exp

(***************************************************************************)
(* renderCurrentCard: what it leaves in #genderResult.                     *)
(***************************************************************************)
renderCurrentCard(st, shown) ==
    IF st.current = NoCard THEN shown
    ELSE IF st.mode = "flash" THEN ""
    ELSE IF ~st.genderAnswered THEN "Choose der / die / das."
    ELSE IF st.genderCorrect THEN "Correct." ELSE "Not quite."

(***************************************************************************)
(* Click handlers, up to their first await.                                *)
(***************************************************************************)
Tick ==
    /\ now < MaxTime
    /\ now' = now + 1
    /\ UNCHANGED <<decks, cards, uidCount, selectedDeckId, study, genderResult, txq, tx,
                   result, snapshot, exp, gradeCount>>

\* #btnAddDeck.onclick
AddDeckClick(name) ==
    /\ CanQueue /\ uidCount < MaxUid
    /\ trim(name) # NoText
    /\ Enqueue([BaseReq EXCEPT !.op = "addDeck", !.id = uid,
                               !.deck = newDeck(uid, trim(name), now)])
    /\ uidCount' = uidCount + 1
    /\ UNCHANGED <<decks, cards, now, selectedDeckId, study, genderResult, tx, result,
                   snapshot, exp, gradeCount>>

\* [data-action="rename"].onclick
RenameClick(d, name) ==
    /\ CanQueue
    /\ trim(name) # NoText
    /\ Enqueue([BaseReq EXCEPT !.op = "updateDeck", !.id = d, !.name = name])
    /\ UNCHANGED <<decks, cards, now, uidCount, selectedDeckId, study, genderResult, tx,
                   result, snapshot, exp, gradeCount>>

\* [data-action="delete"].onclick of a deck
DeleteDeckClick(d) ==
    /\ CanQueue
    /\ Enqueue([BaseReq EXCEPT !.op = "deleteDeck", !.id = d])
    /\ UNCHANGED <<decks, cards, now, uidCount, selectedDeckId, study, genderResult, tx,
                   result, snapshot, exp, gradeCount>>

\* [data-action="select"].onclick and #studyDeckSelect.onchange
SelectClick(d) ==
    /\ selectedDeckId # d
    /\ selectedDeckId' = d
    /\ UNCHANGED <<decks, cards, now, uidCount, study, genderResult, txq, tx, result,
                   snapshot, exp, gradeCount>>

\* #cardForm.onsubmit with an empty #cardId
AddCardSubmit(fields) ==
    /\ CanQueue /\ uidCount < MaxUid
    /\ selectedDeckId # 0
    /\ Enqueue([BaseReq EXCEPT !.op = "addCard", !.id = uid,
                               !.card = newCard(uid, selectedDeckId, fields, now)])
    /\ uidCount' = uidCount + 1
    /\ UNCHANGED <<decks, cards, now, selectedDeckId, study, genderResult, tx, result,
                   snapshot, exp, gradeCount>>

\* #cardForm.onsubmit with the #cardId of an edited card
UpdateCardSubmit(c, fields) ==
    /\ CanQueue
    /\ selectedDeckId # 0
    /\ Enqueue([BaseReq EXCEPT !.op = "updateCard", !.id = c, !.fields = fields])
    /\ UNCHANGED <<decks, cards, now, uidCount, selectedDeckId, study, genderResult, tx,
                   result, snapshot, exp, gradeCount>>

\* [data-action="delete"].onclick of a card
DeleteCardClick(c) ==
    /\ CanQueue
    /\ Enqueue([BaseReq EXCEPT !.op = "deleteCard", !.id = c])
    /\ UNCHANGED <<decks, cards, now, uidCount, selectedDeckId, study, genderResult, tx,
                   result, snapshot, exp, gradeCount>>

\* #btnResetAll.onclick
ResetAllClick ==
    /\ CanQueue
    /\ Enqueue([BaseReq EXCEPT !.op = "wipeAll"])
    /\ UNCHANGED <<decks, cards, now, uidCount, selectedDeckId, study, genderResult, tx,
                   result, snapshot, exp, gradeCount>>

\* startSession up to  await getCardsByDeck
StartClick(d, g) ==
    /\ CanQueue
    /\ Enqueue([BaseReq EXCEPT !.op = "getCards", !.id = d, !.input = g,
                               !.goal = clamp(g, GoalMin, GoalMax)])
    /\ UNCHANGED <<decks, cards, now, uidCount, selectedDeckId, study, genderResult, tx,
                   result, snapshot, exp, gradeCount>>

\* gradeCurrent without the check of study.genderAnswered
gradeCurrentUnchecked(grade) ==
    /\ study.active /\ study.current # NoCard
    /\ CanQueue /\ gradeCount < MaxGrades
    /\ LET c == applySRS(study.current, grade, now)
       IN  /\ study' = [study EXCEPT !.current = c]
           /\ Enqueue([BaseReq EXCEPT !.op = "putCard", !.id = c.id, !.card = c])
    /\ gradeCount' = gradeCount + 1
    /\ UNCHANGED <<decks, cards, now, uidCount, selectedDeckId, genderResult, tx, result,
                   snapshot, exp>>

\* gradeCurrent up to  await putCard
gradeCurrent(grade) ==
    /\ study.active /\ study.current # NoCard
    /\ IF study.mode = "gender" /\ ~study.genderAnswered
       THEN /\ genderResult' = "Pick der/die/das first."
            /\ UNCHANGED <<study, txq, gradeCount>>
       ELSE /\ CanQueue /\ gradeCount < MaxGrades
            /\ LET c == applySRS(study.current, grade, now)
               IN  /\ study' = [study EXCEPT !.current = c]
                   /\ Enqueue([BaseReq EXCEPT !.op = "putCard", !.id = c.id, !.card = c])
            /\ gradeCount' = gradeCount + 1
            /\ UNCHANGED genderResult
    /\ UNCHANGED <<decks, cards, now, uidCount, selectedDeckId, tx, result, snapshot,
                   exp>>

\* #flashcard.onclick without the check of study.mode
FlashcardClickAnyMode ==
    /\ study.active /\ study.current # NoCard
    /\ study' = [study EXCEPT !.flipped = ~study.flipped]
    /\ genderResult' = renderCurrentCard(study', genderResult)
    /\ UNCHANGED <<decks, cards, now, uidCount, selectedDeckId, txq, tx, result,
                   snapshot, exp, gradeCount>>

\* #flashcard.onclick
FlashcardClick ==
    /\ study.active /\ study.current # NoCard
    /\ study.mode = "flash"
    /\ study' = [study EXCEPT !.flipped = ~study.flipped]
    /\ genderResult' = renderCurrentCard(study', genderResult)
    /\ UNCHANGED <<decks, cards, now, uidCount, selectedDeckId, txq, tx, result,
                   snapshot, exp, gradeCount>>

\* #btnShowAnswer.onclick
ShowAnswerClick ==
    /\ study.active /\ study.current # NoCard
    /\ study' = IF study.mode = "flash"
                THEN [study EXCEPT !.flipped = ~study.flipped]
                ELSE [study EXCEPT !.genderAnswered = TRUE, !.genderCorrect = FALSE]
    /\ genderResult' = renderCurrentCard(study', genderResult)
    /\ UNCHANGED <<decks, cards, now, uidCount, selectedDeckId, txq, tx, result,
                   snapshot, exp, gradeCount>>

\* onGenderChoice without toLowerCase
onGenderChoiceExact(choice) ==
    /\ study.current # NoCard /\ study.mode = "gender"
    /\ LET correct == trim(study.current.article)
       IN  study' = [study EXCEPT !.genderAnswered = TRUE,
                                  !.genderCorrect = (choice = correct) /\ correct # NoText]
    /\ genderResult' = renderCurrentCard(study', genderResult)
    /\ UNCHANGED <<decks, cards, now, uidCount, selectedDeckId, txq, tx, result,
                   snapshot, exp, gradeCount>>

\* onGenderChoice
onGenderChoice(choice) ==
    /\ study.current # NoCard /\ study.mode = "gender"
    /\ LET correct == trim(toLowerCase(study.current.article))
       IN  study' = [study EXCEPT !.genderAnswered = TRUE,
                                  !.genderCorrect = (choice = correct) /\ correct # NoText]
    /\ genderResult' = renderCurrentCard(study', genderResult)
    /\ UNCHANGED <<decks, cards, now, uidCount, selectedDeckId, txq, tx, result,
                   snapshot, exp, gradeCount>>

(***************************************************************************)
(* The transactions: the oldest one runs; when it has completed, the code  *)
(* after the await of the handler that created it runs.                    *)
(***************************************************************************)
Head1 == txq[1]
Running(op) == txq # << >> /\ Head1.op = op /\ tx.pc = "idle"

\* addDeck, and ensureStarterDeck going on to addCard
ExecAddDeck ==
    /\ Running("addDeck")
    /\ decks' = Put(decks, Head1.deck.id, Head1.deck)
    /\ IF Head1.starter
       THEN /\ uidCount < MaxUid
            /\ txq' = Append(Tail(txq),
                             [BaseReq EXCEPT !.op = "addCard", !.id = uid, !.starter = TRUE,
                                  !.card = newCard(uid, Head1.deck.id, StarterFields, now)])
            /\ uidCount' = uidCount + 1
       ELSE /\ txq' = Tail(txq)
            /\ UNCHANGED uidCount
    /\ Settles("")
    /\ Observe(decks', cards)
    /\ UNCHANGED <<cards, now, selectedDeckId, study, genderResult, tx, snapshot,
                   gradeCount>>

\* updateDeck
ExecUpdateDeck ==
    /\ Running("updateDeck")
    /\ IF Head1.id \in DOMAIN decks
       THEN /\ decks' = [decks EXCEPT ![Head1.id].name = trim(Head1.name)]
            /\ Settles("")
       ELSE /\ UNCHANGED decks
            /\ Settles("Deck not found")
    /\ txq' = Tail(txq)
    /\ Observe(decks', cards)
    /\ UNCHANGED <<cards, now, uidCount, selectedDeckId, study, genderResult, tx,
                   snapshot, gradeCount>>

\* addCard
ExecAddCard ==
    /\ Running("addCard")
    /\ cards' = Put(cards, Head1.card.id, Head1.card)
    /\ txq' = Tail(txq)
    /\ Settles("")
    /\ Observe(decks, cards')
    /\ UNCHANGED <<decks, now, uidCount, selectedDeckId, study, genderResult, tx,
                   snapshot, gradeCount>>

\* updateCard
ExecUpdateCard ==
    /\ Running("updateCard")
    /\ IF Head1.id \in DOMAIN cards
       THEN /\ cards' = [cards EXCEPT ![Head1.id] = editedCard(@, Head1.fields)]
            /\ Settles("")
       ELSE /\ UNCHANGED cards
            /\ Settles("Card not found")
    /\ txq' = Tail(txq)
    /\ Observe(decks, cards')
    /\ UNCHANGED <<decks, now, uidCount, selectedDeckId, study, genderResult, tx,
                   snapshot, gradeCount>>

\* deleteCard that looks the card up first, as updateCard does
ExecDeleteCardChecked ==
    /\ Running("deleteCard")
    /\ IF Head1.id \in DOMAIN cards
       THEN /\ cards' = Remove(cards, Head1.id)
            /\ Settles("")
       ELSE /\ UNCHANGED cards
            /\ Settles("Card not found")
    /\ txq' = Tail(txq)
    /\ Observe(decks, cards')
    /\ UNCHANGED <<decks, now, uidCount, selectedDeckId, study, genderResult, tx,
                   snapshot, gradeCount>>

\* deleteCard
ExecDeleteCard ==
    /\ Running("deleteCard")
    /\ cards' = Remove(cards, Head1.id)
    /\ txq' = Tail(txq)
    /\ Settles("")
    /\ Observe(decks, cards')
    /\ UNCHANGED <<decks, now, uidCount, selectedDeckId, study, genderResult, tx,
                   snapshot, gradeCount>>

\* study.done >= study.goal || study.queue.length === 0, after study.done += 1
completes(st) == st.done + 1 >= st.goal \/ st.queue = << >>

\* gradeCurrent after  await putCard, with queue[0] in place of queue.shift()
gradedNoShift(st) ==
    LET done == st.done + 1
    IN  IF completes(st)
        THEN [st EXCEPT !.done = done, !.active = FALSE]
        ELSE [st EXCEPT !.done = done, !.current = Head(st.queue),
                        !.flipped = FALSE,
                        !.genderAnswered = FALSE, !.genderCorrect = FALSE]

\* gradeCurrent after  await putCard
graded(st) ==
    LET done == st.done + 1
    IN  IF completes(st)
        THEN [st EXCEPT !.done = done, !.active = FALSE]
        ELSE [st EXCEPT !.done = done, !.current = Head(st.queue),
                        !.queue = Tail(st.queue), !.flipped = FALSE,
                        !.genderAnswered = FALSE, !.genderCorrect = FALSE]

\* putCard, and gradeCurrent going on
ExecPutCard ==
    /\ Running("putCard")
    /\ cards' = Put(cards, Head1.card.id, Head1.card)
    /\ txq' = Tail(txq)
    /\ study' = graded(study)
    /\ genderResult' = IF completes(study) THEN genderResult
                       ELSE renderCurrentCard(study', genderResult)
    /\ Settles("")
    /\ Observe(decks, cards')
    /\ UNCHANGED <<decks, now, uidCount, selectedDeckId, tx, snapshot, gradeCount>>

\* startSession after  await getCardsByDeck
started(cs, deckId, goal, mode, q) ==
    [active |-> TRUE, mode |-> mode, deckId |-> deckId, goal |-> Min(goal, Len(cs)),
     done |-> 0, queue |-> Tail(q), current |-> Head(q), flipped |-> FALSE,
     genderAnswered |-> FALSE, genderCorrect |-> FALSE]

\* getCardsByDeck, and startSession going on
ExecGetCards ==
    /\ Running("getCards")
    /\ LET cs == getCardsByDeck(cards, Head1.id)
       IN  IF Len(cs) = 0
           THEN UNCHANGED <<study, genderResult>>
           ELSE \E mode \in Modes :
                \E q \in buildStudyQueue(cs, Min(Head1.goal, Len(cs)), now) :
                    /\ study' = started(cs, Head1.id, Head1.goal, mode, q)
                    /\ genderResult' = renderCurrentCard(study', genderResult)
    /\ txq' = Tail(txq)
    /\ Settles("")
    /\ UNCHANGED <<decks, cards, now, uidCount, selectedDeckId, tx, snapshot, exp,
                   gradeCount>>

\* getAllDecks of ensureStarterDeck, going on to addDeck when there is no deck
ExecGetDecks ==
    /\ Running("getDecks")
    /\ IF DOMAIN decks = {}
       THEN /\ uidCount < MaxUid
            /\ txq' = Append(Tail(txq),
                             [BaseReq EXCEPT !.op = "addDeck", !.id = uid, !.starter = TRUE,
                                             !.deck = newDeck(uid, StarterName, now)])
            /\ uidCount' = uidCount + 1
       ELSE /\ txq' = Tail(txq)
            /\ UNCHANGED uidCount
    /\ Settles("")
    /\ UNCHANGED <<decks, cards, now, selectedDeckId, study, genderResult, tx, snapshot,
                   exp, gradeCount>>

(***************************************************************************)
(* deleteDeck and wipeAll: one transaction over both stores, several       *)
(* requests.  The requests write to the transaction's view (tx); the       *)
(* stores change when the transaction commits.                             *)
(***************************************************************************)
\* the first request in a transaction of its own: it is committed at once
TxBeginOwnTransaction ==
    /\ txq # << >> /\ Head1.op \in {"deleteDeck", "wipeAll"} /\ tx.pc = "idle"
    /\ decks' = IF Head1.op = "deleteDeck" THEN Remove(decks, Head1.id) ELSE Empty
    /\ tx' = IF Head1.op = "deleteDeck"
             THEN [pc |-> "cursor", decks |-> decks', cards |-> cards]
             ELSE [pc |-> "clear", decks |-> Empty, cards |-> cards]
    /\ UNCHANGED <<cards, now, uidCount, selectedDeckId, study, genderResult, txq,
                   result, snapshot, exp, gradeCount>>

\* the transaction starts: its first request, decks.delete(id) or decks.clear()
TxBegin ==
    /\ txq # << >> /\ Head1.op \in {"deleteDeck", "wipeAll"} /\ tx.pc = "idle"
    /\ tx' = IF Head1.op = "deleteDeck"
             THEN [pc |-> "cursor", decks |-> Remove(decks, Head1.id), cards |-> cards]
             ELSE [pc |-> "clear", decks |-> Empty, cards |-> cards]
    /\ UNCHANGED <<decks, cards, now, uidCount, selectedDeckId, study, genderResult, txq,
                   result, snapshot, exp, gradeCount>>

\* cursorReq.onsuccess with a card: cur.delete(); cur.continue()
TxCursor ==
    /\ tx.pc = "cursor"
    /\ CardsOfDeck(tx.cards, Head1.id) # {}
    /\ LET c == CHOOSE i \in CardsOfDeck(tx.cards, Head1.id) :
                    \A j \in CardsOfDeck(tx.cards, Head1.id) : i <= j
       IN  tx' = [tx EXCEPT !.cards = Remove(tx.cards, c)]
    /\ UNCHANGED <<decks, cards, now, uidCount, selectedDeckId, study, genderResult, txq,
                   result, snapshot, exp, gradeCount>>

\* cards.clear() of wipeAll
TxClear ==
    /\ tx.pc = "clear"
    /\ tx' = [tx EXCEPT !.pc = "cleared", !.cards = Empty]
    /\ UNCHANGED <<decks, cards, now, uidCount, selectedDeckId, study, genderResult, txq,
                   result, snapshot, exp, gradeCount>>

\* what the transaction leaves in the two stores when it completes
committed(t) == <<t.decks, t.cards>>

\* deleteDeck whose cursor is not continued: the transaction completes with the
\* cards the cursor has not reached still stored
TxCommitDeleteEarly ==
    /\ tx.pc = "cursor"
    /\ decks' = committed(tx)[1]
    /\ cards' = committed(tx)[2]
    /\ selectedDeckId' = IF selectedDeckId = Head1.id THEN 0 ELSE selectedDeckId
    /\ tx' = NoTx
    /\ txq' = Tail(txq)
    /\ Settles("")
    /\ Observe(decks', cards')
    /\ UNCHANGED <<now, uidCount, study, genderResult, snapshot, gradeCount>>

\* tx.oncomplete of deleteDeck, and the delete handler going on
TxCommitDelete ==
    /\ tx.pc = "cursor"
    /\ CardsOfDeck(tx.cards, Head1.id) = {}
    /\ decks' = committed(tx)[1]
    /\ cards' = committed(tx)[2]
    /\ selectedDeckId' = IF selectedDeckId = Head1.id THEN 0 ELSE selectedDeckId
    /\ tx' = NoTx
    /\ txq' = Tail(txq)
    /\ Settles("")
    /\ Observe(decks', cards')
    /\ UNCHANGED <<now, uidCount, study, genderResult, snapshot, gradeCount>>

\* tx.oncomplete of wipeAll, and the reset handler going on to ensureStarterDeck
TxCommitWipe ==
    /\ tx.pc = "cleared"
    /\ decks' = committed(tx)[1]
    /\ cards' = committed(tx)[2]
    /\ selectedDeckId' = 0
    /\ study' = [study EXCEPT !.active = FALSE]
    /\ tx' = NoTx
    /\ txq' = Append(Tail(txq), [BaseReq EXCEPT !.op = "getDecks"])
    /\ Settles("")
    /\ Observe(decks', cards')
    /\ UNCHANGED <<now, uidCount, genderResult, snapshot, gradeCount>>

\* the transaction fails (quota, storage unavailable, abort): txDone rejects, the
\* handler stops at its await, and what the transaction wrote is rolled back
TxFail ==
    /\ txq # << >>
    /\ Head1.op \notin {"exportDecks", "exportCards"}
    /\ tx' = NoTx
    /\ txq' = Tail(txq)
    /\ Settles("TransactionFailure")
    /\ UNCHANGED <<decks, cards, now, uidCount, selectedDeckId, study, genderResult,
                   snapshot, exp, gradeCount>>

(***************************************************************************)
(* exportAll: two transactions, one per store.                             *)
(***************************************************************************)
\* exportBackupJSON up to the first await of exportAll
ExportClick ==
    /\ CanQueue
    /\ exp.pc \in {"idle", "done"}
    /\ Enqueue([BaseReq EXCEPT !.op = "exportDecks"])
    /\ exp' = [pc |-> "decks", decks |-> Empty, seen |-> {<<decks, cards>>}]
    /\ UNCHANGED <<decks, cards, now, uidCount, selectedDeckId, study, genderResult, tx,
                   result, snapshot, gradeCount>>

\* tx1: decks.getAll(), and exportAll going on to tx2
ExecExportDecks ==
    /\ Running("exportDecks")
    /\ exp' = [exp EXCEPT !.pc = "cards", !.decks = decks]
    /\ txq' = Append(Tail(txq), [BaseReq EXCEPT !.op = "exportCards"])
    /\ UNCHANGED <<decks, cards, now, uidCount, selectedDeckId, study, genderResult, tx,
                   result, snapshot, gradeCount>>

\* what exportAll returns, from the decks of tx1 and the cards of tx2
exportAll(ds, cs) == [decks |-> ds, cards |-> cs]

\* tx2: cards.getAll(), and exportAll returning
ExecExportCards ==
    /\ Running("exportCards")
    /\ snapshot' = exportAll(exp.decks, cards)
    /\ exp' = [exp EXCEPT !.pc = "done", !.decks = Empty]
    /\ txq' = Tail(txq)
    /\ UNCHANGED <<decks, cards, now, uidCount, selectedDeckId, study, genderResult, tx,
                   result, gradeCount>>

(***************************************************************************)
(* The scheduling engine and the queue builder on their own.               *)
(***************************************************************************)
\* may the card be given this grade (the caps on reps and lapses)
Gradable(c, grade) ==
    IF grade = "again" THEN c.srs.lapses < MaxLapses ELSE c.srs.reps < MaxReps

\* applySRS on a stored card
GradeCard(c, grade) ==
    /\ Gradable(cards[c], grade)
    /\ cards' = [cards EXCEPT ![c] = applySRS(@, grade, now)]
    /\ UNCHANGED <<decks, now, uidCount, selectedDeckId, study, genderResult, txq, tx,
                   result, snapshot, exp, gradeCount>>

\* review states that grading a new card leaves
SampleSRS ==
    {defaultSRS(0), srsAgain(defaultSRS(0), 0), srsGood(defaultSRS(0), 0)}
QueueTimes == {0, 1, DayTicks}

\* buildStudyQueue(cards, goal); the result is kept in study.queue
BuildQueue(goal) ==
    /\ study.deckId = 0
    /\ \E q \in buildStudyQueue(getCardsByDeck(cards, 1), goal, now) :
         study' = [study EXCEPT !.deckId = 1, !.goal = goal, !.queue = q]
    /\ UNCHANGED <<decks, cards, now, uidCount, selectedDeckId, genderResult, txq, tx,
                   result, snapshot, exp, gradeCount>>

(***************************************************************************)
(* Specifications.                                                         *)
(***************************************************************************)
\* deck and card management
StoreClicks ==
    \/ \E name \in NameInputs : AddDeckClick(name)
    \/ \E d \in DOMAIN decks, name \in NameInputs : RenameClick(d, name)
    \/ \E d \in DOMAIN decks : DeleteDeckClick(d)
    \/ \E d \in DOMAIN decks : SelectClick(d)
    \/ \E f \in FieldInputs : AddCardSubmit(f)
    \/ \E c \in DOMAIN cards, f \in FieldInputs : UpdateCardSubmit(c, f)
    \/ \E c \in DOMAIN cards : DeleteCardClick(c)
    \/ ResetAllClick

StoreCompletions ==
    \/ ExecAddDeck
    \/ ExecUpdateDeck
    \/ ExecAddCard
    \/ ExecUpdateCard
    \/ ExecDeleteCard
    \/ ExecGetDecks
    \/ TxBegin
    \/ TxCursor
    \/ TxClear
    \/ TxCommitDelete
    \/ TxCommitWipe

\* studying
StudyClicks ==
    \/ \E d \in DOMAIN decks, g \in GoalInputs : StartClick(d, g)
    \/ \E g \in Grades : gradeCurrent(g)
    \/ FlashcardClick
    \/ ShowAnswerClick
    \/ \E ch \in Choices : onGenderChoice(ch)

StudyCompletions ==
    \/ ExecPutCard
    \/ ExecGetCards

ExportSteps ==
    \/ ExportClick
    \/ ExecExportDecks
    \/ ExecExportCards

\* the whole program
Next == Tick \/ StoreClicks \/ StoreCompletions \/ StudyClicks \/ StudyCompletions
            \/ ExportSteps \/ TxFail
Spec == Init /\ [][Next]_vars

\* the store alone; transactions may fail
NextStore == StoreClicks \/ StoreCompletions \/ TxFail
SpecStore == Init /\ [][NextStore]_vars

\* decks and cards are added, decks are deleted and the store is reset;
\* transactions may fail
NextTx ==
    \/ \E name \in NameInputs : AddDeckClick(name)
    \/ \E d \in DOMAIN decks : DeleteDeckClick(d)
    \/ \E d \in DOMAIN decks : SelectClick(d)
    \/ \E f \in FieldInputs : AddCardSubmit(f)
    \/ ResetAllClick
    \/ ExecAddDeck
    \/ ExecAddCard
    \/ ExecGetDecks
    \/ TxBegin
    \/ TxCursor
    \/ TxClear
    \/ TxCommitDelete
    \/ TxCommitWipe
    \/ TxFail
SpecTx == Init /\ [][NextTx]_vars

\* exportAll while decks and cards are added and deleted; every transaction
\* succeeds
NextExport ==
    \/ \E name \in NameInputs : AddDeckClick(name)
    \/ \E d \in DOMAIN decks : DeleteDeckClick(d)
    \/ \E d \in DOMAIN decks : SelectClick(d)
    \/ \E f \in FieldInputs : AddCardSubmit(f)
    \/ ResetAllClick
    \/ ExecAddDeck
    \/ ExecAddCard
    \/ ExecGetDecks
    \/ TxBegin
    \/ TxCursor
    \/ TxClear
    \/ TxCommitDelete
    \/ TxCommitWipe
    \/ ExportSteps
SpecExport == Init /\ [][NextExport]_vars

\* studying the starter deck after cards were added to it; every transaction
\* succeeds
InitStudy ==
    /\ decks = (1 :> newDeck(1, StarterName, 0))
    /\ \E n \in 1..MaxCards :
         /\ cards = [i \in 2..(n + 1) |->
                        newCard(i, 1, IF i = 2 THEN StarterFields
                                      ELSE CHOOSE f \in FieldInputs : TRUE, 0)]
         /\ uidCount = n + 1
    /\ now = 0
    /\ selectedDeckId = 1
    /\ study = NoStudy
    /\ genderResult = ""
    /\ txq = << >>
    /\ tx = NoTx
    /\ result = NoResult
    /\ snapshot = NoSnapshot
    /\ exp = NoExport
    /\ gradeCount = 0

NextStudy == StudyClicks \/ StudyCompletions
SpecStudy == InitStudy /\ [][NextStudy]_vars

\* studying while cards of the deck are deleted; every transaction succeeds
NextStudyStore ==
    \/ NextStudy
    \/ \E c \in DOMAIN cards : DeleteCardClick(c)
    \/ ExecDeleteCard
SpecStudyStore == InitStudy /\ [][NextStudyStore]_vars

\* sessions are started on a deck of new cards with a goal below, at and above
\* GoalMin
StartGoals == {1, GoalMin, GoalMin + 1}

InitStart ==
    /\ decks = (1 :> newDeck(1, StarterName, 0))
    /\ \E n \in 0..MaxStart :
         /\ cards = [i \in 2..(n + 1) |-> newCard(i, 1, StarterFields, 0)]
         /\ uidCount = n + 1
    /\ now = 0
    /\ selectedDeckId = 1
    /\ study = NoStudy
    /\ genderResult = ""
    /\ txq = << >>
    /\ tx = NoTx
    /\ result = NoResult
    /\ snapshot = NoSnapshot
    /\ exp = NoExport
    /\ gradeCount = 0

NextStart ==
    \/ \E d \in DOMAIN decks, g \in StartGoals : StartClick(d, g)
    \/ ExecGetCards
SpecStart == InitStart /\ [][NextStart]_vars

\* gradeCurrent is called with the three grades and with a value that is none of
\* them; every transaction succeeds
AnyGrades == Grades \cup {"hard"}

NextGrade ==
    \/ \E d \in DOMAIN decks, g \in GoalInputs : StartClick(d, g)
    \/ \E g \in AnyGrades : gradeCurrent(g)
    \/ ShowAnswerClick
    \/ StudyCompletions
SpecGrade == InitStudy /\ [][NextGrade]_vars

\* decks are added and cards are added, edited and deleted, with blank text in
\* the forms that add; the starter card may have been graded; every transaction
\* succeeds
BlankName == <<" ", " ">>
BlankEnglish == [english |-> <<" ">>, german |-> <<"K">>, article |-> NoText,
                 plural |-> NoText, example |-> NoText, notes |-> NoText]
AnyNameInputs == NameInputs \cup {BlankName}
AnyFieldInputs == FieldInputs \cup {BlankEnglish}

InitCards ==
    /\ decks = (1 :> newDeck(1, StarterName, 0))
    /\ \E s \in SampleSRS : cards = (2 :> [newCard(2, 1, StarterFields, 0) EXCEPT !.srs = s])
    /\ now = 0
    /\ uidCount = 2
    /\ selectedDeckId = 1
    /\ study = NoStudy
    /\ genderResult = ""
    /\ txq = << >>
    /\ tx = NoTx
    /\ result = NoResult
    /\ snapshot = NoSnapshot
    /\ exp = NoExport
    /\ gradeCount = 0

NextCards ==
    \/ \E name \in AnyNameInputs : AddDeckClick(name)
    \/ \E f \in AnyFieldInputs : AddCardSubmit(f)
    \/ \E c \in DOMAIN cards, f \in FieldInputs : UpdateCardSubmit(c, f)
    \/ \E c \in DOMAIN cards : DeleteCardClick(c)
    \/ ExecAddDeck
    \/ ExecAddCard
    \/ ExecUpdateCard
    \/ ExecDeleteCard
SpecCards == InitCards /\ [][NextCards]_vars

\* studying a deck of one card whose article is das, Das (as a CSV file may give
\* it) or empty; every transaction succeeds
ArticleInputs == {DAS, <<"D", "a", "s">>, NoText}

InitGender ==
    /\ decks = (1 :> newDeck(1, StarterName, 0))
    /\ \E a \in ArticleInputs :
         cards = (2 :> newCard(2, 1, [StarterFields EXCEPT !.article = a], 0))
    /\ now = 0
    /\ uidCount = 2
    /\ selectedDeckId = 1
    /\ study = NoStudy
    /\ genderResult = ""
    /\ txq = << >>
    /\ tx = NoTx
    /\ result = NoResult
    /\ snapshot = NoSnapshot
    /\ exp = NoExport
    /\ gradeCount = 0

SpecGender == InitGender /\ [][NextStudy]_vars

\* studying while transactions may fail
NextStudyFail == NextStudy \/ TxFail
SpecStudyFail == InitStudy /\ [][NextStudyFail]_vars

\* studying while cards of the deck are edited; every transaction succeeds
NextStudyEdit ==
    \/ NextStudy
    \/ \E c \in DOMAIN cards, f \in FieldInputs : UpdateCardSubmit(c, f)
    \/ ExecUpdateCard
SpecStudyEdit == InitStudy /\ [][NextStudyEdit]_vars

\* sessions on a deck of up to MaxSession new cards are started and graded
\* through with good; every transaction succeeds
InitSession ==
    /\ decks = (1 :> newDeck(1, StarterName, 0))
    /\ \E n \in 1..MaxSession :
         /\ cards = [i \in 2..(n + 1) |-> newCard(i, 1, StarterFields, 0)]
         /\ uidCount = n + 1
    /\ now = 0
    /\ selectedDeckId = 1
    /\ study = NoStudy
    /\ genderResult = ""
    /\ txq = << >>
    /\ tx = NoTx
    /\ result = NoResult
    /\ snapshot = NoSnapshot
    /\ exp = NoExport
    /\ gradeCount = 0

NextSession ==
    \/ \E d \in DOMAIN decks : StartClick(d, GoalDefault)
    \/ gradeCurrent("good")
    \/ ShowAnswerClick
    \/ StudyCompletions
SpecSession == InitSession /\ [][NextSession]_vars

\* the starter card is graded again and again as time goes by
NextSRS == Tick \/ \E c \in DOMAIN cards, g \in Grades : GradeCard(c, g)
SpecSRS == Init /\ [][NextSRS]_vars

\* the queue builder on a deck of cards in the review states of SampleSRS
InitQueue ==
    /\ decks = (1 :> newDeck(1, StarterName, 0))
    /\ \E n \in 0..MaxDeck :
         /\ \E f \in [2..(n + 1) -> SampleSRS] :
              cards = [i \in 2..(n + 1) |->
                         [newCard(i, 1, StarterFields, 0) EXCEPT !.srs = f[i]]]
         /\ uidCount = n + 1
    /\ now \in QueueTimes
    /\ selectedDeckId = 1
    /\ study = NoStudy
    /\ genderResult = ""
    /\ txq = << >>
    /\ tx = NoTx
    /\ result = NoResult
    /\ snapshot = NoSnapshot
    /\ exp = NoExport
    /\ gradeCount = 0

NextQueue == \E goal \in 1..MaxGoal : BuildQueue(goal)
SpecQueue == InitQueue /\ [][NextQueue]_vars

(***************************************************************************)
(* Properties.                                                             *)
(***************************************************************************)
StoreChanged == decks' # decks \/ cards' # cards
Restrict(f, S) == [i \in S |-> f[i]]

\* C1: every stored card's deckId is the id of a stored deck, in every reachable
\* state of the store.
C1_ReferentialIntegrity == \A c \in DOMAIN cards : cards[c].deckId \in DOMAIN decks

\* C2: while deleteDeck or wipeAll is the running call, the two stores change only
\* by its whole effect (the deck and all its cards gone, or both stores empty)
\* together with the call resolving; when the call is rejected with
\* TransactionFailure the stores are as they were.
C2_AllOrNothing ==
    [][(txq # << >> /\ txq[1].op \in {"deleteDeck", "wipeAll"}) =>
         /\ StoreChanged =>
              /\ result' = [op |-> txq[1].op, id |-> txq[1].id, error |-> ""]
              /\ txq' # txq
              /\ IF txq[1].op = "wipeAll"
                 THEN DOMAIN decks' = {} /\ DOMAIN cards' = {}
                 ELSE /\ decks' = Remove(decks, txq[1].id)
                      /\ cards' = Restrict(cards, DOMAIN cards
                                                    \ CardsOfDeck(cards, txq[1].id))
         /\ (tx.pc # "idle" /\ tx'.pc = "idle" /\ result'.error = "TransactionFailure")
              => ~StoreChanged]_vars

\* a deleteDeck was rejected and its deck and the deck's cards are stored
C2_Witness ==
    /\ result.op = "deleteDeck" /\ result.error = "TransactionFailure"
    /\ result.id \in DOMAIN decks
    /\ CardsOfDeck(cards, result.id) # {}

\* C3: when deleteDeck(id) completes, no deck has that id and no card has that
\* deckId, and every other deck and every card of another deck is as it was.
C3_DeleteDeckCascade ==
    [][(tx.pc = "cursor" /\ tx'.pc = "idle" /\ result'.error = "") =>
         LET id == txq[1].id
         IN  /\ id \notin DOMAIN decks'
             /\ CardsOfDeck(cards', id) = {}
             /\ DOMAIN decks' = DOMAIN decks \ {id}
             /\ \A d \in DOMAIN decks' : decks'[d] = decks[d]
             /\ DOMAIN cards' = DOMAIN cards \ CardsOfDeck(cards, id)
             /\ \A c \in DOMAIN cards' : cards'[c] = cards[c]]_vars

\* deleteDeck of the starter deck (which held its card) has completed and another
\* deck and its card are stored
C3_Witness ==
    /\ result = [op |-> "deleteDeck", id |-> 1, error |-> ""]
    /\ 1 \notin DOMAIN decks
    /\ \E c \in DOMAIN cards : cards[c].deckId \in DOMAIN decks

\* C4: done rises by exactly one per grade that is carried out, only while the
\* session is active, never beyond goal, and the session is active afterwards
\* exactly when done is below goal.
C4_DoneCountsToGoal ==
    [][(study.done' # study.done /\ study.done' # 0) =>
         /\ study.active
         /\ study.done' = study.done + 1
         /\ study.done' <= study.goal
         /\ study'.active <=> study.done' < study.goal]_vars

\* C5: no grade and no start is taken up while an earlier grade waits for its
\* putCard, and done never exceeds goal.
C5_Serialized ==
    /\ \A i \in 1..Len(txq) : \A j \in (i + 1)..Len(txq) :
         ~(txq[i].op = "putCard" /\ txq[j].op \in {"putCard", "getCards"})
    /\ study.done <= study.goal

\* C6: what exportAll returned is the content of the two stores at one instant
\* between its call and its return.
C6_SnapshotOfOneInstant ==
    exp.pc = "done" => <<snapshot.decks, snapshot.cards>> \in exp.seen

\* C7: in gender mode with no answer given, a grade changes neither the session
\* nor the stores nor the queued transactions.
C7_GradeBeforeAnswerIsNoOp ==
    [][(/\ study.active /\ study.current # NoCard
        /\ study.mode = "gender" /\ ~study.genderAnswered
        /\ \E g \in Grades : gradeCurrent(g)) =>
         UNCHANGED <<study, decks, cards, txq, gradeCount>>]_vars

\* a grade was refused in a gender session whose card is not answered
C7_Witness ==
    /\ study.active /\ study.mode = "gender" /\ ~study.genderAnswered
    /\ study.current # NoCard
    /\ genderResult = "Pick der/die/das first."

\* C8: the ease of a card that was created and then graded any number of times
\* lies in [1.3, 3.0].
C8_EaseInRange ==
    \A c \in DOMAIN cards : EaseMin <= cards[c].srs.ease /\ cards[c].srs.ease <= EaseMax

\* a card graded again six times is at the lower end of the range
C8_Witness ==
    \E c \in DOMAIN cards :
        cards[c].srs.lapses >= 6 /\ cards[c].srs.ease = EaseMin

\* C9: the queue built has min(goal, C) cards, each a card of the deck, with
\* pairwise distinct ids.
Built == study.deckId # 0 /\ ~study.active
DueCount == Cardinality({c \in DOMAIN cards : IsDue(cards[c], now)})

C9_QueueLengthAndDistinct ==
    Built =>
        /\ Len(study.queue) = Min(study.goal, Cardinality(DOMAIN cards))
        /\ \A k \in 1..Len(study.queue) :
             /\ study.queue[k].id \in DOMAIN cards
             /\ study.queue[k] = cards[study.queue[k].id]
        /\ \A k, l \in 1..Len(study.queue) :
             k # l => study.queue[k].id # study.queue[l].id

\* a queue was built with a goal below the number of cards, some of them not due
C9_Witness ==
    /\ Built
    /\ study.goal < Cardinality(DOMAIN cards)
    /\ DueCount < study.goal
    /\ Len(study.queue) = study.goal

\* C10: when at least goal cards are due, every card of the queue built is due.
C10_OnlyDueWhenEnoughDue ==
    (Built /\ DueCount >= study.goal) =>
        \A k \in 1..Len(study.queue) : IsDue(study.queue[k], now)

\* a queue was built from a deck with a not-due card and at least goal due cards
C10_Witness ==
    /\ Built
    /\ DueCount >= study.goal
    /\ DueCount < Cardinality(DOMAIN cards)
    /\ Len(study.queue) = study.goal

\* C11: a putCard whose card's id is not stored is rejected with NotFound and
\* leaves the store of cards as it was.
C11_PutCardOfUnknownIdFails ==
    [][(ExecPutCard /\ txq[1].id \notin DOMAIN cards) =>
         /\ cards' = cards
         /\ result'.error = "Card not found"]_vars

\* C12: an addCard whose deckId is not the id of a stored deck is rejected with
\* NotFound and adds no card.
C12_AddCardToUnknownDeckFails ==
    [][(ExecAddCard /\ txq[1].card.deckId \notin DOMAIN decks) =>
         /\ cards' = cards
         /\ result'.error = "Deck not found"]_vars

\* C13: when startSession has read the cards of its deck, with no card the session
\* is as it was; with cardCount >= 1 cards the session is active with goal =
\* min(requested goal, cardCount), done = 0, current a card of the deck that is
\* not in the queue, goal - 1 cards in the queue, and nothing flipped or answered.
C13_StartEntersActive ==
    [][ExecGetCards =>
         LET n == Cardinality(CardsOfDeck(cards, txq[1].id))
         IN  IF n = 0 THEN study' = study
             ELSE /\ study'.active
                  /\ study'.deckId = txq[1].id
                  /\ study'.goal = Min(txq[1].input, n)
                  /\ study'.done = 0
                  /\ study'.current.id \in CardsOfDeck(cards, txq[1].id)
                  /\ ~HasId(study'.queue, study'.current.id)
                  /\ Len(study'.queue) = study'.goal - 1
                  /\ ~study'.flipped
                  /\ ~study'.genderAnswered
                  /\ ~study'.genderCorrect]_vars

\* C14: once a session is complete (it was started and is no longer active), a
\* flip, a gender answer, a reveal or a grade changes no field of the session and
\* neither store, and queues no transaction.
C14_CompleteIsTerminal ==
    [][(/\ ~study.active /\ study.deckId # 0
        /\ \/ FlashcardClick
           \/ ShowAnswerClick
           \/ \E ch \in Choices : onGenderChoice(ch)
           \/ \E g \in Grades : gradeCurrent(g)) =>
         UNCHANGED <<study, decks, cards, txq>>]_vars

\* C15: one again grade at time now leaves reps = 0, intervalDays = 0.25, due =
\* now + a quarter of a day, lapses one more than before and ease =
\* max(1.3, min(3.0, ease before - 0.20)).
C15_AgainResets ==
    [][\A c \in DOMAIN cards :
         GradeCard(c, "again") =>
             /\ cards'[c].srs.reps = 0
             /\ cards'[c].srs.intervalDays = <<1, 4>>
             /\ 4 * cards'[c].srs.due[1] = (4 * now + DayTicks) * cards'[c].srs.due[2]
             /\ cards'[c].srs.lapses = cards[c].srs.lapses + 1
             /\ cards'[c].srs.ease =
                    Max(EaseMin, Min(EaseMax, cards[c].srs.ease - EaseAgain))]_vars

\* a card that had been graded good at least twice was graded again at a later
\* time, with its ease still above the minimum
C15_Witness ==
    \E c \in DOMAIN cards :
        /\ cards[c].srs.reps = 0 /\ cards[c].srs.lapses = 1
        /\ cards[c].srs.ease = EaseStart + 2 * EaseGood - EaseAgain
        /\ cards[c].srs.due = <<2, 1>>

\* C16: a card graded with reps = 0 gets intervalDays = 1 from good and
\* intervalDays = 2 from easy, with reps = 1 and its lapses as before; a card of
\* ease 2.3 and reps 0 graded again has ease 2.10, reps 0 and intervalDays 0.25,
\* and graded good after that has ease 2.15, reps 1 and intervalDays 1.
C16_FirstIntervals ==
    [][\A c \in DOMAIN cards :
         /\ (cards[c].srs.reps = 0 /\ GradeCard(c, "good")) =>
               /\ cards'[c].srs.intervalDays = <<1, 1>>
               /\ cards'[c].srs.reps = 1
               /\ cards'[c].srs.lapses = cards[c].srs.lapses
         /\ (cards[c].srs.reps = 0 /\ GradeCard(c, "easy")) =>
               /\ cards'[c].srs.intervalDays = <<2, 1>>
               /\ cards'[c].srs.reps = 1
               /\ cards'[c].srs.lapses = cards[c].srs.lapses
         /\ (/\ cards[c].srs.reps = 0 /\ cards[c].srs.ease = EaseStart
             /\ GradeCard(c, "again")) =>
               /\ cards'[c].srs.ease = 210
               /\ cards'[c].srs.reps = 0
               /\ cards'[c].srs.intervalDays = <<1, 4>>
         /\ (/\ cards[c].srs.reps = 0 /\ cards[c].srs.ease = 210
             /\ cards[c].srs.intervalDays = <<1, 4>>
             /\ GradeCard(c, "good")) =>
               /\ cards'[c].srs.ease = 215
               /\ cards'[c].srs.reps = 1
               /\ cards'[c].srs.intervalDays = <<1, 1>>]_vars

\* the card of ease 2.3 was graded again and then good
C16_Witness ==
    \E c \in DOMAIN cards :
        /\ cards[c].srs.ease = 215 /\ cards[c].srs.reps = 1
        /\ cards[c].srs.lapses = 1 /\ cards[c].srs.intervalDays = <<1, 1>>

\* C17: a card that was created and never graded has intervalDays = 0 and due =
\* its creation time, so it is due from then on; every grade at time now leaves
\* due = now + intervalDays days; intervalDays is never negative.
C17_DueFromInterval ==
    /\ [](\A c \in DOMAIN cards :
            /\ cards[c].srs.intervalDays[1] >= 0 /\ cards[c].srs.intervalDays[2] > 0
            /\ (cards[c].srs.reps = 0 /\ cards[c].srs.lapses = 0) =>
                  /\ cards[c].srs.intervalDays = <<0, 1>>
                  /\ cards[c].srs.due = <<cards[c].createdAt, 1>>
                  /\ IsDue(cards[c], now))
    /\ [][\A c \in DOMAIN cards :
            (\E g \in Grades : GradeCard(c, g)) =>
                LET iv == cards'[c].srs.intervalDays
                    due == cards'[c].srs.due
                IN  Frac(due[1] - now * due[2], due[2])
                        = Frac(iv[1] * DayTicks, iv[2])]_vars

\* a card was graded after time has passed, for the second time in a row with
\* good or easy, and its interval is of more than two days
C17_Witness ==
    \E c \in DOMAIN cards :
        /\ now > 0 /\ cards[c].srs.reps = 2
        /\ cards[c].srs.intervalDays[1] > 2 * cards[c].srs.intervalDays[2]
        /\ cards[c].srs.due[1] > (now + 2 * DayTicks) * cards[c].srs.due[2]

\* C18: gradeCurrent with a grade that is not again, good or easy queues no
\* putCard and changes neither the session (done, current, queue, active) nor
\* the stores.
C18_UnknownGradeIsRefused ==
    [][(\E g \in AnyGrades \ Grades : gradeCurrent(g)) =>
         UNCHANGED <<study, txq, decks, cards>>]_vars

\* C19: an addDeck whose name is empty after trimming and an addCard whose english
\* or german is empty after trimming are rejected with ValidationError and store
\* no record.
C19_BlankTextIsRejected ==
    [][/\ (ExecAddDeck /\ txq[1].deck.name = NoText) =>
            /\ decks' = decks
            /\ result'.error = "ValidationError"
       /\ (ExecAddCard /\ (txq[1].card.english = NoText \/ txq[1].card.german = NoText)) =>
            /\ cards' = cards
            /\ result'.error = "ValidationError"]_vars

\* C20: updateCard on a stored card writes the six trimmed text fields and leaves
\* the card's srs, id, deckId and createdAt, every other card and every deck as
\* they were; on an id that is not stored it is rejected with NotFound and changes
\* neither store.
C20_UpdateCardFrame ==
    [][ExecUpdateCard =>
         LET id == txq[1].id
             f == txq[1].fields
         IN  /\ decks' = decks
             /\ IF id \in DOMAIN cards
                THEN /\ DOMAIN cards' = DOMAIN cards
                     /\ \A c \in DOMAIN cards \ {id} : cards'[c] = cards[c]
                     /\ cards'[id].english = trim(f.english)
                     /\ cards'[id].german = trim(f.german)
                     /\ cards'[id].article = trim(f.article)
                     /\ cards'[id].plural = trim(f.plural)
                     /\ cards'[id].example = trim(f.example)
                     /\ cards'[id].notes = trim(f.notes)
                     /\ cards'[id].srs = cards[id].srs
                     /\ cards'[id].id = id
                     /\ cards'[id].deckId = cards[id].deckId
                     /\ cards'[id].createdAt = cards[id].createdAt
                     /\ result'.error = ""
                ELSE /\ cards' = cards
                     /\ result'.error = "Card not found"]_vars

\* the graded starter card was edited, and an updateCard of a card that had been
\* deleted was rejected
C20_Witness ==
    /\ 2 \in DOMAIN cards
    /\ cards[2].english = <<"c">> /\ cards[2].plural = NoText
    /\ cards[2].srs.reps + cards[2].srs.lapses > 0
    /\ result.op = "updateCard" /\ result.error = "Card not found"
    /\ result.id \notin DOMAIN cards

\* C21: a gender answer in an active gender session sets answered, and sets
\* correct exactly when the current card's article is not empty and equals the
\* choice, whatever was answered before; current, queue, done and the stores are
\* as before.
C21_AnswerByEquality ==
    [][\A ch \in Choices :
         (study.active /\ onGenderChoice(ch)) =>
             /\ study'.genderAnswered
             /\ study'.genderCorrect <=>
                    (study.current.article # NoText /\ study.current.article = ch)
             /\ study'.current = study.current /\ study'.queue = study.queue
             /\ study'.done = study.done
             /\ UNCHANGED <<decks, cards, txq>>]_vars

\* C21, amended: as C21, with the article compared in lower case.
C21_AnswerByLowerCase ==
    [][\A ch \in Choices :
         (study.active /\ onGenderChoice(ch)) =>
             /\ study'.genderAnswered
             /\ study'.genderCorrect <=>
                    (study.current.article # NoText
                       /\ toLowerCase(study.current.article) = ch)
             /\ study'.current = study.current /\ study'.queue = study.queue
             /\ study'.done = study.done
             /\ UNCHANGED <<decks, cards, txq>>]_vars

\* the card of article Das was answered das, which counts as correct, in a
\* session that is still active
C21_Witness ==
    /\ study.active /\ study.mode = "gender"
    /\ study.current.article = <<"D", "a", "s">>
    /\ study.genderAnswered /\ study.genderCorrect

\* C22: in an active flash session a click on the card or on Show / Flip negates
\* flipped and leaves every other field of the session, the stores and the
\* queued transactions as they were; while a gender session is active no step
\* changes flipped.
C22_FlipToggles ==
    [][/\ (study.active /\ study.mode = "flash" /\ (FlashcardClick \/ ShowAnswerClick)) =>
            /\ study' = [study EXCEPT !.flipped = ~study.flipped]
            /\ UNCHANGED <<decks, cards, txq>>
       /\ (study.active /\ study.mode = "gender") => study'.flipped = study.flipped]_vars

\* the card of an active flash session is flipped
C22_Witness ==
    /\ study.active /\ study.mode = "flash" /\ study.flipped
    /\ study.current # NoCard

\* C23: deleteCard resolves without error; when the id is stored it removes that
\* card and no other, when it is not stored the store of cards is as before; the
\* decks are as before.
C23_DeleteCardIdempotent ==
    [][ExecDeleteCard =>
         /\ result'.error = ""
         /\ decks' = decks
         /\ cards' = Restrict(cards, DOMAIN cards \ {txq[1].id})
         /\ (txq[1].id \notin DOMAIN cards) => cards' = cards]_vars

\* a card was deleted and a second deleteCard of the same id is about to run
C23_Witness ==
    /\ result.op = "deleteCard" /\ result.error = ""
    /\ result.id \notin DOMAIN cards
    /\ txq # << >> /\ txq[1].op = "deleteCard" /\ txq[1].id = result.id

\* C24: when fewer cards are due than the goal, every due card of the deck is in
\* the queue built, so that cards that are not due take at most goal - dueCount
\* places.
C24_DueCardsFirst ==
    (Built /\ DueCount < study.goal) =>
        /\ \A c \in DOMAIN cards : IsDue(cards[c], now) => HasId(study.queue, c)
        /\ Cardinality({k \in 1..Len(study.queue) : ~IsDue(study.queue[k], now)})
               <= study.goal - DueCount

\* C25: when the putCard of a grade is rejected with TransactionFailure, done,
\* queue, the flags and the stores are as before that step, and the review state
\* of the session's current card is that of the stored record, as it was before
\* the grade.
C25_FailedGradeHasNoEffect ==
    [][(txq # << >> /\ txq[1].op = "putCard" /\ TxFail) =>
         /\ result'.error = "TransactionFailure"
         /\ UNCHANGED <<decks, cards>>
         /\ study'.done = study.done /\ study'.queue = study.queue
         /\ study'.flipped = study.flipped
         /\ study'.genderAnswered = study.genderAnswered
         /\ study'.genderCorrect = study.genderCorrect
         /\ study'.current.id \in DOMAIN cards' =>
                study'.current.srs = cards'[study'.current.id].srs]_vars

\* C26: the putCard of a grade leaves every deck and every other card as stored,
\* and of the graded card it changes nothing but the srs: the text fields stay as
\* the store holds them.
C26_GradeWritesOnlySrs ==
    [][(ExecPutCard /\ txq[1].id \in DOMAIN cards) =>
         /\ decks' = decks
         /\ DOMAIN cards' = DOMAIN cards
         /\ \A c \in DOMAIN cards \ {txq[1].id} : cards'[c] = cards[c]
         /\ cards'[txq[1].id] =
                [cards[txq[1].id] EXCEPT !.srs = cards'[txq[1].id].srs]]_vars

C28_LapsesAndRepsCount ==
    /\ \A c \in DOMAIN cards : cards[c].srs.lapses = 0 /\ cards[c].srs.reps = 0
    /\ [][\A c \in DOMAIN cards :
            /\ GradeCard(c, "again") =>
                  /\ cards'[c].srs.lapses = cards[c].srs.lapses + 1
                  /\ cards'[c].srs.reps = 0
            /\ (GradeCard(c, "good") \/ GradeCard(c, "easy")) =>
                  /\ cards'[c].srs.lapses = cards[c].srs.lapses
                  /\ cards'[c].srs.reps = cards[c].srs.reps + 1]_vars

\* a card was graded again twice and, since the last again, good or easy twice
C28_Witness ==
    \E c \in DOMAIN cards : cards[c].srs.lapses = 2 /\ cards[c].srs.reps = 2

====
